---- MODULE Spec2Model ----
(***************************************************************************)
(* A model of cpsm's CtrlP entry point (src/src/python_extension_main.cc)  *)
(* and of its path utilities (src/src/path_util.h).                        *)
(*                                                                         *)
(* Spec      the parallel driver cpsm_ctrlp_match: the driver thread, the  *)
(*           worker threads, the producer mutex and the host's iterator.   *)
(*           A candidate handle is the position of the object in the       *)
(*           sequence of objects the iterator has yielded (history).       *)
(*           The matcher is a table over the kinds of string.              *)
(* SpecPath  path_components_of, common_prefix and path_distance_between   *)
(*           applied to every pair of short paths.                         *)
(* SpecCr    the body of the worker's match loop on strings of characters: *)
(*           the match mode's substring, then the matcher's test against   *)
(*           the current file.                                             *)
(* SpecThreads  the max_threads argument and get_nr_threads, for every     *)
(*           core count the machine may report.                            *)
(* SpecInvert  the inversion of the query on query_inverting_delimiter.    *)
(* SpecHl    the first pass and the highlight pass over one candidate.     *)
(***************************************************************************)
EXTENDS Integers, Sequences, FiniteSets, TLC

\* ------------------------------------------------------------------ bounds

\* The most objects the host's iterator yields in one request.
MaxItems == 3
\* The largest limit argument explored (limit_int ranges over -1..MaxLimit).
MaxLimit == 2
\* The longest query_inverting_delimiter explored.
MaxDelim == 2

\* The longest path SpecPath decomposes.
MaxPathLen == 4
\* The longest candidate and current file of SpecCr, and the most candidates
\* it matches in one request.
MaxCrLen == 2
MaxCrItems == 2

\* SpecThreads: the most cores Thread::hardware_concurrency() reports, and the
\* largest max_threads argument in absolute value.
MaxHw == 4
MaxThreadsArg == 5

\* SpecInvert: the longest query.
MaxQueryLen == 4

\* SpecHl: the longest candidate and the longest query.
MaxHlLen == 3
MaxHlQuery == 2

\* python_extension_main.cc:92
kBatchSizeBytes == 8192

\* python_extension_main.cc:65: Thread::hardware_concurrency() on the machine
\* modelled, which has two cores.
hardware_concurrency == 2

Workers == 1..hardware_concurrency
Handles == 1..MaxItems

Min(a, b) == IF a < b THEN a ELSE b
Range(s) == {s[i] : i \in 1..Len(s)}

\* ------------------------------------------------------- the host's objects

\* The kinds of object the iterator can yield.  Two objects of the same kind
\* are strings with the same bytes; "obj" is an object that is not a string.
StringKinds == {"hi", "lo1", "lo2", "rej", "bad"}
Kinds == StringKinds \cup {"obj"}

\* PyString_AsStringAndSize's item_size for a string of each kind.
ItemSize(k) == IF k = "hi" THEN 8192 ELSE 4096

\* The position of a kind's bytes in the lexicographic order of the strings.
Bytes(k) ==
  CASE k = "hi" -> 1 [] k = "lo1" -> 2 [] k = "lo2" -> 3 [] k = "rej" -> 4
    [] k = "bad" -> 5 [] OTHER -> 6

\* Matcher::match on a string of kind k: it accepts the string, rejects it,
\* or raises an error.
Verdict(k) ==
  CASE k \in {"hi", "lo1", "lo2"} -> "accept"
    [] k = "rej" -> "reject"
    [] OTHER -> "throw"

\* The score Matcher::match records for an accepted string (higher is better).
Score(k) == IF k = "hi" THEN 2 ELSE 1

VARIABLES
  limit_int,        \* the limit argument
  max_threads_int,  \* the max_threads argument
  delim_size,       \* query_inverting_delimiter_size
  iterable,         \* whether PyObject_GetIter(items_obj) succeeds
  history,          \* the objects PyIter_Next has yielded, in order
  iter_state,       \* "open", "ended" (exhausted) or "raised" (next() raised)
  items_mu,         \* the worker holding the producer mutex, 0 when free
  end_of_python_iter,
  have_python_ex,
  wpc,              \* each worker's position
  items,            \* each worker's batch: the handles it still owns
  unmatched_objs,   \* each worker's handles waiting to be released
  thread_matches,   \* each worker's matches (its top-K heap when limit > 0)
  batch_size_bytes, \* each worker's batch size so far
  has_exception,    \* whether each worker's function ended in an exception
  dpc,              \* the driver's position
  nr_threads,
  spawned,          \* the threads created so far
  join_idx,         \* the index i of the join loop
  nr_matches,
  all_matches,      \* the merged, sorted and limited matches
  result,           \* the list handed to the host
  released,         \* how many times each handle's reference was dropped
  unlocked_rel,     \* the handles a worker dropped without holding items_mu
  tested,           \* how many times each worker has passed each handle to
                    \* matcher.match at line 240
  \* SpecPath
  ppc,              \* the next step of SpecPath
  path_x, path_y,   \* two paths
  parts_x, parts_y, \* their components
  distance,         \* the distance between them
  \* SpecCr
  mmode,            \* the match mode
  cur_file,         \* crfile
  match_crfile,
  query,
  cr_seen,          \* the candidates matched so far
  cr_matches,       \* the candidates kept as matches, in order
  \* SpecThreads
  tpc,              \* the next step of SpecThreads
  hw,               \* what Thread::hardware_concurrency() returns
  t_max_threads_int, \* the max_threads argument
  t_max_threads,    \* max_threads (line 163)
  t_nr_threads,     \* nr_threads (line 165)
  \* SpecInvert
  ipc,              \* the next step of SpecInvert
  query_data,       \* the query argument
  query_inverting_delimiter,
  inv_query,        \* `query` after line 150
  \* SpecHl
  hpc,              \* the next step of SpecHl
  hl_item,          \* the candidate's bytes (m.item.first)
  highlight_mode,
  match_positions   \* match_positions, in the order std::set iterates it

vars ==
  << limit_int, max_threads_int, delim_size, iterable, history, iter_state,
     items_mu, end_of_python_iter, have_python_ex, wpc, items, unmatched_objs,
     thread_matches, batch_size_bytes, has_exception, dpc, nr_threads, spawned,
     join_idx, nr_matches, all_matches, result, released, unlocked_rel,
     tested,
     ppc, path_x, path_y, parts_x, parts_y, distance,
     mmode, cur_file, match_crfile, query, cr_seen, cr_matches,
     tpc, hw, t_max_threads_int, t_max_threads, t_nr_threads,
     ipc, query_data, query_inverting_delimiter, inv_query,
     hpc, hl_item, highlight_mode, match_positions >>

pathVars == << ppc, path_x, path_y, parts_x, parts_y, distance >>
crVars == << mmode, cur_file, match_crfile, query, cr_seen, cr_matches >>
thrVars == << tpc, hw, t_max_threads_int, t_max_threads, t_nr_threads >>
invVars == << ipc, query_data, query_inverting_delimiter, inv_query >>
hlVars == << hpc, hl_item, highlight_mode, match_positions >>

\* The request's arguments, and the variables of the other specifications:
\* no step of the driver or of a worker changes them.
inputVars ==
  << limit_int, max_threads_int, delim_size, iterable, pathVars, crVars,
     thrVars, invVars, hlVars >>
workerVars ==
  << wpc, items, unmatched_objs, thread_matches, batch_size_bytes,
     has_exception >>
driverVars ==
  << dpc, nr_threads, spawned, join_idx, nr_matches, all_matches, result >>

KindOf(h) == history[h]

\* python_extension_main.cc:162
limit == IF limit_int >= 0 THEN limit_int ELSE 0

\* python_extension_main.cc:163-164
max_threads_of(arg) == IF arg >= 0 THEN arg ELSE 0

\* A count that takes the machine's report as it is, zero included.
get_nr_threads_NoFloor(hc, max_threads) ==
  IF max_threads # 0 /\ hc > max_threads THEN max_threads ELSE hc

\* python_extension_main.cc:64-73, with hc what Thread::hardware_concurrency()
\* returns at line 65.
get_nr_threads(hc, max_threads) ==
  LET nr == IF hc = 0 THEN 1 ELSE hc
  IN IF max_threads # 0 /\ nr > max_threads THEN max_threads ELSE nr

\* ---------------------------------------------------------- match ordering

\* Match::operator<: a sorts before b.  The higher score first, then the
\* candidate's bytes, ascending.
MatchLess(a, b) ==
  \/ Score(KindOf(a)) > Score(KindOf(b))
  \/ /\ Score(KindOf(a)) = Score(KindOf(b))
     /\ Bytes(KindOf(a)) < Bytes(KindOf(b))

\* The elements of S that std::sort may put first.
Firsts(S) == {a \in S : \A b \in S : ~MatchLess(b, a)}

\* Every order std::sort may leave the matches S in (equal matches in any
\* order).
RECURSIVE SortedSeqs(_)
SortedSeqs(S) ==
  IF S = {} THEN {<< >>}
  ELSE UNION {{<<a>> \o t : t \in SortedSeqs(S \ {a})} : a \in Firsts(S)}

\* sort_limit(vec, limit): the results it can leave in vec.
sort_limit(S, lim) ==
  {IF lim # 0 /\ lim < Len(s) THEN SubSeq(s, 1, lim) ELSE s : s \in SortedSeqs(S)}

\* A heap that evicts one match late.
HeapOverLimit_Late(size, lim) == size > lim + 1

\* A heap that evicts on reaching the limit instead of on passing it.
HeapOverLimit_AtLimit(size, lim) == size >= lim

\* python_extension_main.cc:244
HeapOverLimit(size, lim) == size > lim

\* A pop from a heap ordered the other way round: the best match leaves.
PopHeapVictims_Best(S) == {a \in S : \A b \in S : ~MatchLess(b, a)}

\* A pop that takes whatever element is at hand, not the worst one.
PopHeapVictims_Any(S) == S

\* python_extension_main.cc:245-248: std::pop_heap moves the greatest match
\* by operator< (the worst of the heap) to the back; any of the greatest when
\* several are equal.
PopHeapVictims(S) == {a \in S : \A b \in S : ~MatchLess(a, b)}

\* A test that lets a delimiter of two characters through.
DelimiterTooLong_Two(size) == size > 2

\* python_extension_main.cc:144
DelimiterTooLong(size) == size > 1

\* Dropping the references the handles of S hold.
Release(S) == [h \in Handles |-> released[h] + IF h \in S THEN 1 ELSE 0]

\* ---------------------------------------------------------------- Init

\* SpecPath at rest.
PathIdle ==
  /\ ppc = "idle"
  /\ path_x = << >> /\ path_y = << >>
  /\ parts_x = << >> /\ parts_y = << >>
  /\ distance = 0

\* SpecCr at rest.
CrIdle ==
  /\ mmode = "full-line"
  /\ cur_file = << >>
  /\ match_crfile = FALSE
  /\ query = << >>
  /\ cr_seen = 0
  /\ cr_matches = << >>

\* SpecThreads at rest.
ThreadsIdle ==
  /\ tpc = "idle"
  /\ hw = 0
  /\ t_max_threads_int = 0
  /\ t_max_threads = 0
  /\ t_nr_threads = 0

\* SpecInvert at rest.
InvertIdle ==
  /\ ipc = "idle"
  /\ query_data = << >>
  /\ query_inverting_delimiter = << >>
  /\ inv_query = << >>

\* SpecHl at rest.
HlIdle ==
  /\ hpc = "idle"
  /\ hl_item = << >>
  /\ highlight_mode = ""
  /\ match_positions = << >>

\* The driver before its first step.
DriverStart ==
  /\ history = << >>
  /\ iter_state = "open"
  /\ items_mu = 0
  /\ end_of_python_iter = FALSE
  /\ have_python_ex = FALSE
  /\ wpc = [w \in Workers |-> "unborn"]
  /\ items = [w \in Workers |-> << >>]
  /\ unmatched_objs = [w \in Workers |-> {}]
  /\ thread_matches = [w \in Workers |-> {}]
  /\ batch_size_bytes = [w \in Workers |-> 0]
  /\ has_exception = [w \in Workers |-> FALSE]
  /\ dpc = "start"
  /\ nr_threads = 0
  /\ spawned = 0
  /\ join_idx = 0
  /\ nr_matches = 0
  /\ all_matches = << >>
  /\ result = << >>
  /\ released = [h \in Handles |-> 0]
  /\ unlocked_rel = {}
  /\ tested = [w \in Workers |-> [h \in Handles |-> 0]]

\* A request that SpecPath and SpecCr leave where it is.
DriverIdle ==
  /\ limit_int = 0
  /\ max_threads_int = 1
  /\ delim_size = 0
  /\ iterable = TRUE
  /\ DriverStart

\* The requests of Spec set a delimiter: without one (size 0) the driver
\* takes the steps it takes with a delimiter of one character, lines 143-150
\* touching the query alone.
Init ==
  /\ limit_int \in -1..MaxLimit
  /\ max_threads_int \in 1..hardware_concurrency
  /\ delim_size \in 1..MaxDelim
  /\ iterable \in BOOLEAN
  /\ DriverStart
  /\ PathIdle
  /\ CrIdle
  /\ ThreadsIdle
  /\ InvertIdle
  /\ HlIdle

\* ---------------------------------------------------------------- workers

\* A thread runs only while the process does (see D_Terminate).
Running == dpc # "terminated"

\* The handles of S, dropped by worker w in this step, join unlocked_rel
\* unless w holds items_mu as it drops them.
DroppedBy(w, S) ==
  unlocked_rel' = IF items_mu' = w THEN unlocked_rel ELSE unlocked_rel \cup S

\* A lock that does not wait for the mutex to be free.
lock_guard_enters_Always(mu) == TRUE

\* python_extension_main.cc:189, 205: the constructor of std::lock_guard
\* returns once the mutex is free.
lock_guard_enters(mu) == mu = 0

\* A test that looks at the end of the stream alone.
flags_set_OnlyEnd(end, ex) == end

\* python_extension_main.cc:208
flags_set(end, ex) == end \/ ex

\* python_extension_main.cc:205-210: take items_mu, drop the unmatched
\* references, and look at the two flags.
W_Lock(w) ==
  /\ Running
  /\ wpc[w] = "top"
  /\ lock_guard_enters(items_mu)
  /\ items_mu' = w
  /\ released' = Release(unmatched_objs[w])
  /\ DroppedBy(w, unmatched_objs[w])
  /\ unmatched_objs' = [unmatched_objs EXCEPT ![w] = {}]
  /\ batch_size_bytes' = [batch_size_bytes EXCEPT ![w] = 0]
  /\ wpc' = [wpc EXCEPT ![w] =
              IF flags_set(end_of_python_iter, have_python_ex)
              THEN "ret_locked" ELSE "pull"]
  /\ UNCHANGED << inputVars, tested, history, iter_state, end_of_python_iter,
                  have_python_ex, items, thread_matches, has_exception,
                  driverVars >>

\* A loop test that pulls once more when the batch is exactly at the size.
AfterPull_Inclusive(size) ==
  IF size <= kBatchSizeBytes THEN "pull" ELSE "unlock"

\* The position after one pass of the pull loop (line 212).
AfterPull(size) == IF size < kBatchSizeBytes THEN "pull" ELSE "unlock"

\* python_extension_main.cc:213-217: PyIter_Next returns NULL, the iterator
\* being exhausted.
W_PullEnd(w) ==
  /\ Running
  /\ wpc[w] = "pull"
  /\ iter_state = "open"
  /\ iter_state' = "ended"
  /\ end_of_python_iter' = TRUE
  /\ wpc' = [wpc EXCEPT ![w] = "unlock"]
  /\ UNCHANGED << inputVars, tested, history, items_mu, have_python_ex, items,
                  unmatched_objs, thread_matches, batch_size_bytes,
                  has_exception, driverVars, released, unlocked_rel >>

\* python_extension_main.cc:213-217: PyIter_Next returns NULL with the
\* host's error set, the iterator's next() having raised.
W_PullRaise(w) ==
  /\ Running
  /\ wpc[w] = "pull"
  /\ iter_state = "open"
  /\ iter_state' = "raised"
  /\ end_of_python_iter' = TRUE
  /\ wpc' = [wpc EXCEPT ![w] = "unlock"]
  /\ UNCHANGED << inputVars, tested, history, items_mu, have_python_ex, items,
                  unmatched_objs, thread_matches, batch_size_bytes,
                  has_exception, driverVars, released, unlocked_rel >>

\* python_extension_main.cc:213-227: PyIter_Next returns a string.
W_PullString(w) ==
  /\ Running
  /\ wpc[w] = "pull"
  /\ iter_state = "open"
  /\ Len(history) < MaxItems
  /\ \E k \in StringKinds :
       LET h == Len(history) + 1
           size == batch_size_bytes[w] + ItemSize(k)
       IN /\ history' = Append(history, k)
          /\ items' = [items EXCEPT ![w] = Append(@, h)]
          /\ batch_size_bytes' = [batch_size_bytes EXCEPT ![w] = size]
          /\ wpc' = [wpc EXCEPT ![w] = AfterPull(size)]
  /\ UNCHANGED << inputVars, tested, iter_state, items_mu, end_of_python_iter,
                  have_python_ex, unmatched_objs, thread_matches,
                  has_exception, driverVars, released, unlocked_rel >>

\* python_extension_main.cc:213-224: PyIter_Next returns an object that is not
\* a string; PyString_AsStringAndSize fails, and item_obj is dropped on the
\* way out, before the lock_guard.
W_PullNonString(w) ==
  /\ Running
  /\ wpc[w] = "pull"
  /\ iter_state = "open"
  /\ Len(history) < MaxItems
  /\ history' = Append(history, "obj")
  /\ have_python_ex' = TRUE
  /\ released' = Release({Len(history) + 1})
  /\ wpc' = [wpc EXCEPT ![w] = "ret_locked"]
  /\ UNCHANGED << inputVars, tested, iter_state, items_mu, end_of_python_iter,
                  items,
                  unmatched_objs, thread_matches, batch_size_bytes,
                  has_exception, driverVars >>
  /\ DroppedBy(w, {Len(history) + 1})

\* A return that runs release_unmatched_objs with the lock_guard of the
\* locked block still alive.
mutex_after_return_Held(w) == w

\* python_extension_main.cc:205, 209, 223: on a return inside the locked
\* block its lock_guard, the local of the inner block, is destroyed before
\* the locals of the function: items_mu is free afterwards.
mutex_after_return(w) == 0

\* python_extension_main.cc:209, 223: a return inside the locked block; the
\* lock_guard is destroyed first.
W_RetLocked(w) ==
  /\ Running
  /\ wpc[w] = "ret_locked"
  /\ items_mu' = mutex_after_return(w)
  /\ wpc' = [wpc EXCEPT ![w] = "defer"]
  /\ UNCHANGED << inputVars, tested, history, iter_state, end_of_python_iter,
                  have_python_ex, items, unmatched_objs, thread_matches,
                  batch_size_bytes, has_exception, driverVars, released,
                  unlocked_rel >>

\* python_extension_main.cc:229-232: the end of the locked block, then the
\* test for an empty batch.
W_Unlock(w) ==
  /\ Running
  /\ wpc[w] = "unlock"
  /\ items_mu' = 0
  /\ wpc' = [wpc EXCEPT ![w] = IF items[w] = << >> THEN "defer" ELSE "match"]
  /\ UNCHANGED << inputVars, tested, history, iter_state, end_of_python_iter,
                  have_python_ex, items, unmatched_objs, thread_matches,
                  batch_size_bytes, has_exception, driverVars, released,
                  unlocked_rel >>

\* A loop over the batch that stops one item early.
AfterItem_DropLast(rest) == IF Len(rest) <= 1 THEN "top" ELSE "match"

\* The position after the body of the for loop (lines 234-255) with `rest`
\* left of the batch: the next item, or items.clear() and the next pass.
AfterItem(rest) == IF rest = << >> THEN "top" ELSE "match"

\* python_extension_main.cc:234-243: the item is moved into m and matches.
W_MatchAccept(w) ==
  /\ Running
  /\ wpc[w] = "match"
  /\ LET h == Head(items[w])
         rest == Tail(items[w])
         heap == thread_matches[w] \cup {h}
     IN /\ Verdict(KindOf(h)) = "accept"
        /\ items' = [items EXCEPT ![w] = rest]
        /\ tested' = [tested EXCEPT ![w][h] = @ + 1]
        /\ thread_matches' = [thread_matches EXCEPT ![w] = heap]
        /\ wpc' = [wpc EXCEPT ![w] =
                    IF limit # 0 /\ HeapOverLimit(Cardinality(heap), limit)
                    THEN "evict" ELSE AfterItem(rest)]
  /\ UNCHANGED << inputVars, history, iter_state, items_mu,
                  end_of_python_iter, have_python_ex, unmatched_objs,
                  batch_size_bytes, has_exception, driverVars, released,
                  unlocked_rel >>

\* python_extension_main.cc:245-248: the worst match leaves the heap.
W_Evict(w) ==
  /\ Running
  /\ wpc[w] = "evict"
  /\ \E v \in PopHeapVictims(thread_matches[w]) :
       /\ thread_matches' = [thread_matches EXCEPT ![w] = @ \ {v}]
       /\ unmatched_objs' = [unmatched_objs EXCEPT ![w] = @ \cup {v}]
  /\ wpc' = [wpc EXCEPT ![w] = AfterItem(items[w])]
  /\ UNCHANGED << inputVars, tested, history, iter_state, items_mu,
                  end_of_python_iter, have_python_ex, items, batch_size_bytes,
                  has_exception, driverVars, released, unlocked_rel >>

\* python_extension_main.cc:234-240, 251-253: the item does not match.
W_MatchReject(w) ==
  /\ Running
  /\ wpc[w] = "match"
  /\ LET h == Head(items[w])
         rest == Tail(items[w])
     IN /\ Verdict(KindOf(h)) = "reject"
        /\ items' = [items EXCEPT ![w] = rest]
        /\ tested' = [tested EXCEPT ![w][h] = @ + 1]
        /\ unmatched_objs' = [unmatched_objs EXCEPT ![w] = @ \cup {h}]
        /\ wpc' = [wpc EXCEPT ![w] = AfterItem(rest)]
  /\ UNCHANGED << inputVars, history, iter_state, items_mu,
                  end_of_python_iter, have_python_ex, thread_matches,
                  batch_size_bytes, has_exception, driverVars, released,
                  unlocked_rel >>

\* python_extension_main.cc:239-240: matcher.match raises.  The item was
\* moved into m (line 239), and m is destroyed as the exception leaves the
\* for loop: the worker does not hold items_mu there.
W_MatchThrow(w) ==
  /\ Running
  /\ wpc[w] = "match"
  /\ LET h == Head(items[w])
     IN /\ Verdict(KindOf(h)) = "throw"
        /\ items' = [items EXCEPT ![w] = Tail(@)]
        /\ tested' = [tested EXCEPT ![w][h] = @ + 1]
        /\ released' = Release({h})
  /\ has_exception' = [has_exception EXCEPT ![w] = TRUE]
  /\ wpc' = [wpc EXCEPT ![w] = "defer"]
  /\ UNCHANGED << inputVars, history, iter_state, items_mu,
                  end_of_python_iter, have_python_ex, unmatched_objs,
                  thread_matches, batch_size_bytes, driverVars >>
  /\ DroppedBy(w, {Head(items[w])})

\* python_extension_main.cc:187-192: release_unmatched_objs, run as the
\* worker's function is left: it takes items_mu and clears both vectors.
W_DeferLock(w) ==
  /\ Running
  /\ wpc[w] = "defer"
  /\ lock_guard_enters(items_mu)
  /\ items_mu' = w
  /\ released' = Release(Range(items[w]) \cup unmatched_objs[w])
  /\ DroppedBy(w, Range(items[w]) \cup unmatched_objs[w])
  /\ items' = [items EXCEPT ![w] = << >>]
  /\ unmatched_objs' = [unmatched_objs EXCEPT ![w] = {}]
  /\ wpc' = [wpc EXCEPT ![w] = "defer_unlock"]
  /\ UNCHANGED << inputVars, tested, history, iter_state, end_of_python_iter,
                  have_python_ex, thread_matches, batch_size_bytes,
                  has_exception, driverVars >>

\* python_extension_main.cc:192: the lock_guard of release_unmatched_objs is
\* destroyed, and the thread ends.
W_DeferUnlock(w) ==
  /\ Running
  /\ wpc[w] = "defer_unlock"
  /\ items_mu' = 0
  /\ wpc' = [wpc EXCEPT ![w] = "done"]
  /\ UNCHANGED << inputVars, tested, history, iter_state, end_of_python_iter,
                  have_python_ex, items, unmatched_objs, thread_matches,
                  batch_size_bytes, has_exception, driverVars, released,
                  unlocked_rel >>

\* ----------------------------------------------------------------- driver

AllHeld == UNION {thread_matches[w] : w \in Workers}

\* python_extension_main.cc:140-150: the delimiter is longer than one
\* character; Error is thrown and caught at line 347.
D_DelimiterError ==
  /\ dpc = "start"
  /\ DelimiterTooLong(delim_size)
  /\ dpc' = "runtime_error"
  /\ UNCHANGED << inputVars, tested, history, iter_state, items_mu,
                  end_of_python_iter, have_python_ex, workerVars, nr_threads,
                  spawned, join_idx, nr_matches, all_matches, result, released,
                  unlocked_rel >>

\* python_extension_main.cc:167-170: PyObject_GetIter fails.
D_NotIterable ==
  /\ dpc = "start"
  /\ ~DelimiterTooLong(delim_size)
  /\ ~iterable
  /\ dpc' = "host_error"
  /\ UNCHANGED << inputVars, tested, history, iter_state, items_mu,
                  end_of_python_iter, have_python_ex, workerVars, nr_threads,
                  spawned, join_idx, nr_matches, all_matches, result, released,
                  unlocked_rel >>

\* python_extension_main.cc:140-176: the matcher, the thread count and the
\* iterator are set up.
D_Setup ==
  /\ dpc = "start"
  /\ ~DelimiterTooLong(delim_size)
  /\ iterable
  /\ nr_threads' =
       get_nr_threads(hardware_concurrency, max_threads_of(max_threads_int))
  /\ dpc' = "spawn"
  /\ UNCHANGED << inputVars, tested, history, iter_state, items_mu,
                  end_of_python_iter, have_python_ex, workerVars, spawned,
                  join_idx, nr_matches, all_matches, result, released,
                  unlocked_rel >>

\* python_extension_main.cc:178-258: one pass of the loop that creates the
\* threads; the new thread starts to run.
D_Spawn ==
  /\ dpc = "spawn"
  /\ spawned' = spawned + 1
  /\ wpc' = [wpc EXCEPT ![spawned + 1] = "top"]
  /\ IF spawned + 1 = nr_threads
       THEN dpc' = "join" /\ join_idx' = 1
       ELSE dpc' = "spawn" /\ join_idx' = join_idx
  /\ UNCHANGED << inputVars, tested, history, iter_state, items_mu,
                  end_of_python_iter, have_python_ex, items, unmatched_objs,
                  thread_matches, batch_size_bytes, has_exception, nr_threads,
                  nr_matches, all_matches, result, released, unlocked_rel >>

\* python_extension_main.cc:260-266: threads[i].join() returns and the thread
\* has no exception.
D_Join ==
  /\ dpc = "join"
  /\ wpc[join_idx] = "done"
  /\ ~has_exception[join_idx]
  /\ nr_matches' = nr_matches + Cardinality(thread_matches[join_idx])
  /\ IF join_idx = nr_threads
       THEN dpc' = "joined" /\ join_idx' = join_idx
       ELSE dpc' = "join" /\ join_idx' = join_idx + 1
  /\ UNCHANGED << inputVars, tested, history, iter_state, items_mu,
                  end_of_python_iter, have_python_ex, workerVars, nr_threads,
                  spawned, all_matches, result, released, unlocked_rel >>

\* python_extension_main.cc:261-264: threads[i].join() returns and the thread
\* has an exception: Error is thrown out of the join loop.
D_JoinThrow ==
  /\ dpc = "join"
  /\ wpc[join_idx] = "done"
  /\ has_exception[join_idx]
  /\ dpc' = "raising"
  /\ UNCHANGED << inputVars, tested, history, iter_state, items_mu,
                  end_of_python_iter, have_python_ex, workerVars, nr_threads,
                  spawned, join_idx, nr_matches, all_matches, result, released,
                  unlocked_rel >>

\* The threads the join loop has not joined: they are still joinable.
Unjoined == {w \in 1..nr_threads : w > join_idx}

\* python_extension_main.cc:263, 347-350: the exception leaves the try block
\* with every thread joined; thread_matches is destroyed and the error is
\* set.
D_Catch ==
  /\ dpc = "raising"
  /\ Unjoined = {}
  /\ released' = Release(AllHeld)
  /\ thread_matches' = [w \in Workers |-> {}]
  /\ dpc' = "runtime_error"
  /\ UNCHANGED << inputVars, tested, history, iter_state, items_mu,
                  end_of_python_iter, have_python_ex, wpc, items,
                  unmatched_objs, batch_size_bytes, has_exception, nr_threads,
                  spawned, join_idx, nr_matches, all_matches, result,
                  unlocked_rel >>

\* python_extension_main.cc:177, 263: the exception leaves the try block and
\* `threads` is destroyed with a thread not joined: the process ends in
\* std::terminate.
D_Terminate ==
  /\ dpc = "raising"
  /\ Unjoined # {}
  /\ dpc' = "terminated"
  /\ UNCHANGED << inputVars, tested, history, iter_state, items_mu,
                  end_of_python_iter, have_python_ex, workerVars, nr_threads,
                  spawned, join_idx, nr_matches, all_matches, result, released,
                  unlocked_rel >>

\* python_extension_main.cc:267-269: a host error was recorded; nothing is
\* returned and thread_matches is destroyed.
D_HostError ==
  /\ dpc = "joined"
  /\ have_python_ex
  /\ released' = Release(AllHeld)
  /\ thread_matches' = [w \in Workers |-> {}]
  /\ dpc' = "host_error"
  /\ UNCHANGED << inputVars, tested, history, iter_state, items_mu,
                  end_of_python_iter, have_python_ex, wpc, items,
                  unmatched_objs, batch_size_bytes, has_exception, nr_threads,
                  spawned, join_idx, nr_matches, all_matches, result,
                  unlocked_rel >>

\* python_extension_main.cc:271-280: the per-thread matches are moved into
\* all_matches, which is sorted and cut to the limit; the matches cut are
\* destroyed.
D_Merge ==
  /\ dpc = "joined"
  /\ ~have_python_ex
  /\ \E s \in sort_limit(AllHeld, limit) :
       /\ all_matches' = s
       /\ released' = Release(AllHeld \ Range(s))
  /\ thread_matches' = [w \in Workers |-> {}]
  /\ dpc' = "merged"
  /\ UNCHANGED << inputVars, tested, history, iter_state, items_mu,
                  end_of_python_iter, have_python_ex, wpc, items,
                  unmatched_objs, batch_size_bytes, has_exception, nr_threads,
                  spawned, join_idx, nr_matches, result, unlocked_rel >>

\* python_extension_main.cc:312-346: the matches are appended to the list the
\* host receives.
D_Return ==
  /\ dpc = "merged"
  /\ result' = all_matches
  /\ dpc' = "returned"
  /\ UNCHANGED << inputVars, tested, history, iter_state, items_mu,
                  end_of_python_iter, have_python_ex, workerVars, nr_threads,
                  spawned, join_idx, nr_matches, all_matches, released,
                  unlocked_rel >>

Next ==
  \/ D_DelimiterError
  \/ D_NotIterable
  \/ D_Setup
  \/ D_Spawn
  \/ D_Join
  \/ D_JoinThrow
  \/ D_Catch
  \/ D_Terminate
  \/ D_HostError
  \/ D_Merge
  \/ D_Return
  \/ \E w \in Workers : W_Lock(w)
  \/ \E w \in Workers : W_PullEnd(w)
  \/ \E w \in Workers : W_PullRaise(w)
  \/ \E w \in Workers : W_PullString(w)
  \/ \E w \in Workers : W_PullNonString(w)
  \/ \E w \in Workers : W_RetLocked(w)
  \/ \E w \in Workers : W_Unlock(w)
  \/ \E w \in Workers : W_MatchAccept(w)
  \/ \E w \in Workers : W_Evict(w)
  \/ \E w \in Workers : W_MatchReject(w)
  \/ \E w \in Workers : W_MatchThrow(w)
  \/ \E w \in Workers : W_DeferLock(w)
  \/ \E w \in Workers : W_DeferUnlock(w)

Spec == Init /\ [][Next]_vars

\* The steps of worker w, and the steps of the driver.
WorkerNext(w) ==
  \/ W_Lock(w) \/ W_PullEnd(w) \/ W_PullRaise(w) \/ W_PullString(w)
  \/ W_PullNonString(w) \/ W_RetLocked(w) \/ W_Unlock(w)
  \/ W_MatchAccept(w) \/ W_Evict(w) \/ W_MatchReject(w) \/ W_MatchThrow(w)
  \/ W_DeferLock(w) \/ W_DeferUnlock(w)

DriverNext ==
  \/ D_DelimiterError \/ D_NotIterable \/ D_Setup \/ D_Spawn \/ D_Join
  \/ D_JoinThrow \/ D_Catch \/ D_Terminate \/ D_HostError \/ D_Merge
  \/ D_Return

\* The driver and the workers are threads of the operating system: a thread
\* that can take a step takes one in the end.
SpecFair ==
  /\ Spec
  /\ WF_vars(DriverNext)
  /\ \A w \in Workers : WF_vars(WorkerNext(w))

\* ----------------------------------------------------------- path_util.h

\* path_util.h:29-36 (the POSIX build)
path_separator == "/"

\* boost::string_ref::npos, as the searches of path_util.h return it.
npos == -1

\* CharCount, the type path_distance_between returns, is an unsigned integer
\* type declared in str_util.h; 16 bits are taken here.  The size_t value of
\* line 122 is reduced modulo its range on return.
CharCountRange == 65536

\* boost::string_ref::find_first_of(c): the offset of the first c, or npos.
find_first_of(s, c) ==
  IF \E i \in 1..Len(s) : s[i] = c
  THEN (CHOOSE i \in 1..Len(s) : s[i] = c /\ \A j \in 1..(i - 1) : s[j] # c) - 1
  ELSE npos

\* boost::string_ref::find_last_of(c): the offset of the last c, or npos.
find_last_of(s, c) ==
  IF \E i \in 1..Len(s) : s[i] = c
  THEN (CHOOSE i \in 1..Len(s) : s[i] = c /\ \A j \in (i + 1)..Len(s) : s[j] # c) - 1
  ELSE npos

\* boost::string_ref::substr(pos, n) and remove_prefix(n), offsets from 0.
substr(s, pos, n) == SubSeq(s, pos + 1, Min(pos + n, Len(s)))
remove_prefix(s, n) == SubSeq(s, n + 1, Len(s))

\* path_util.h:96-102
path_basename(path) ==
  LET pos == find_last_of(path, path_separator)
  IN IF pos # npos THEN remove_prefix(path, pos + 1) ELSE path

\* A split that leaves the separator out of each component.
RECURSIVE components_loop_NoSep(_, _)
components_loop_NoSep(path, parts) ==
  LET pos == find_first_of(path, path_separator)
  IN IF pos = npos
     THEN IF path # << >> THEN Append(parts, path) ELSE parts
     ELSE components_loop_NoSep(remove_prefix(path, pos + 1),
                                Append(parts, substr(path, 0, pos)))

path_components_of_NoSep(path) == components_loop_NoSep(path, << >>)

\* path_util.h:106-117: the loop of path_components_of, from the rest of the
\* path and the parts found so far.
RECURSIVE components_loop(_, _)
components_loop(path, parts) ==
  LET pos == find_first_of(path, path_separator)
  IN IF pos = npos
     THEN IF path # << >> THEN Append(parts, path) ELSE parts
     ELSE LET len == pos + 1
          IN components_loop(remove_prefix(path, len),
                             Append(parts, substr(path, 0, len)))

\* path_util.h:104-118
path_components_of(path) == components_loop(path, << >>)

\* path_util.h:62-69: the loop of common_prefix, both iterators at `it`.
RECURSIVE common_prefix_loop(_, _, _, _)
common_prefix_loop(x, y, it, common_ancestors) ==
  IF it <= Len(x) /\ it <= Len(y)
  THEN IF x[it] # y[it] THEN common_ancestors
       ELSE common_prefix_loop(x, y, it + 1, common_ancestors + 1)
  ELSE common_ancestors

\* A count that goes on past the first pair of unequal elements.
common_prefix_NoBreak(x, y) ==
  Cardinality({i \in 1..Min(Len(x), Len(y)) : x[i] = y[i]})

\* path_util.h:55-71
common_prefix(x, y) == common_prefix_loop(x, y, 1, 0)

\* path_util.h:120-123
path_distance_between(x, y) ==
  (Len(x) + Len(y) - (2 * common_prefix(x, y))) % CharCountRange

PathChars == {"a", "b", path_separator}
Paths == UNION {[1..n -> PathChars] : n \in 0..MaxPathLen}

InitPath ==
  /\ DriverIdle
  /\ CrIdle
  /\ ThreadsIdle
  /\ InvertIdle
  /\ HlIdle
  /\ ppc = "split_x"
  /\ path_x \in Paths
  /\ path_y \in Paths
  /\ parts_x = << >> /\ parts_y = << >>
  /\ distance = 0

\* The variables of Spec.
requestVars == << limit_int, max_threads_int, delim_size, iterable, history,
                  iter_state, items_mu, end_of_python_iter, have_python_ex,
                  workerVars, driverVars, released, unlocked_rel, tested >>

frozenForPath == << requestVars, crVars, thrVars, invVars, hlVars >>

\* path_components_of(x)
P_SplitX ==
  /\ ppc = "split_x"
  /\ parts_x' = path_components_of(path_x)
  /\ ppc' = "split_y"
  /\ UNCHANGED << frozenForPath, path_x, path_y, parts_y, distance >>

\* path_components_of(y)
P_SplitY ==
  /\ ppc = "split_y"
  /\ parts_y' = path_components_of(path_y)
  /\ ppc' = "distance"
  /\ UNCHANGED << frozenForPath, path_x, path_y, parts_x, distance >>

\* path_distance_between(x, y)
P_Distance ==
  /\ ppc = "distance"
  /\ distance' = path_distance_between(parts_x, parts_y)
  /\ ppc' = "done"
  /\ UNCHANGED << frozenForPath, path_x, path_y, parts_x, parts_y >>

NextPath == P_SplitX \/ P_SplitY \/ P_Distance

SpecPath == InitPath /\ [][NextPath]_vars

\* ------------------------------------------- the match loop on strings

Tab == "\t"

MatchModes == {"full-line", "filename-only", "first-non-tab", "until-last-tab"}

\* match_mode_item_substr_fn(mmode), applied to an item: the part of the
\* candidate that takes part in matching.
item_substr_fn(mode, item) ==
  CASE mode = "filename-only" -> path_basename(item)
    [] mode = "first-non-tab" ->
         LET pos == find_first_of(item, Tab)
         IN IF pos # npos THEN substr(item, 0, pos) ELSE item
    [] mode = "until-last-tab" ->
         LET pos == find_last_of(item, Tab)
         IN IF pos # npos THEN substr(item, 0, pos) ELSE item
    [] OTHER -> item

\* Whether the characters of q appear in s, in order.
RECURSIVE IsSubsequence(_, _)
IsSubsequence(q, s) ==
  IF q = << >> THEN TRUE
  ELSE IF s = << >> THEN FALSE
  ELSE IF Head(q) = Head(s) THEN IsSubsequence(Tail(q), Tail(s))
  ELSE IsSubsequence(q, Tail(s))

\* Matcher::match(item_str, ...): false for the current file unless
\* match_crfile is set, then the subsequence scan of the query.
Matcher_match(item_str) ==
  IF ~match_crfile /\ item_str = cur_file THEN FALSE
  ELSE IsSubsequence(query, item_str)

CrChars == {"a", path_separator, Tab}
CrStrings == UNION {[1..n -> CrChars] : n \in 0..MaxCrLen}

InitCr ==
  /\ DriverIdle
  /\ PathIdle
  /\ ThreadsIdle
  /\ InvertIdle
  /\ HlIdle
  /\ mmode \in MatchModes
  /\ cur_file \in CrStrings
  /\ match_crfile \in BOOLEAN
  /\ query \in {<< >>, <<"a">>}
  /\ cr_seen = 0
  /\ cr_matches = << >>

frozenForCr == << requestVars, pathVars, thrVars, invVars, hlVars >>

\* python_extension_main.cc:234-241: the substring of the item matches, and
\* the item joins the matches.
C_MatchAccept ==
  /\ cr_seen < MaxCrItems
  /\ \E item \in CrStrings :
       /\ Matcher_match(item_substr_fn(mmode, item))
       /\ cr_matches' = Append(cr_matches, item)
  /\ cr_seen' = cr_seen + 1
  /\ UNCHANGED << frozenForCr, mmode, cur_file, match_crfile, query >>

\* python_extension_main.cc:234-240, 251-253: the substring of the item does
\* not match.
C_MatchReject ==
  /\ cr_seen < MaxCrItems
  /\ \E item \in CrStrings : ~Matcher_match(item_substr_fn(mmode, item))
  /\ cr_seen' = cr_seen + 1
  /\ UNCHANGED << frozenForCr, mmode, cur_file, match_crfile, query,
                  cr_matches >>

NextCr == C_MatchAccept \/ C_MatchReject

SpecCr == InitCr /\ [][NextCr]_vars

\* ------------------------------------------------------- the thread count

InitThreads ==
  /\ DriverIdle
  /\ PathIdle
  /\ CrIdle
  /\ InvertIdle
  /\ HlIdle
  /\ tpc = "convert"
  /\ hw \in 0..MaxHw
  /\ t_max_threads_int \in -MaxThreadsArg..MaxThreadsArg
  /\ t_max_threads = 0
  /\ t_nr_threads = 0

\* python_extension_main.cc:163-164
T_Convert ==
  /\ tpc = "convert"
  /\ t_max_threads' = max_threads_of(t_max_threads_int)
  /\ tpc' = "count"
  /\ UNCHANGED << requestVars, pathVars, crVars, invVars, hlVars, hw,
                  t_max_threads_int, t_nr_threads >>

\* python_extension_main.cc:165
T_GetNrThreads ==
  /\ tpc = "count"
  /\ t_nr_threads' = get_nr_threads(hw, t_max_threads)
  /\ tpc' = "done"
  /\ UNCHANGED << requestVars, pathVars, crVars, invVars, hlVars, hw,
                  t_max_threads_int, t_max_threads >>

NextThreads == T_Convert \/ T_GetNrThreads

SpecThreads == InitThreads /\ [][NextThreads]_vars

\* ------------------------------------------------------ the query inversion

\* str_split(str, delimiter): the pieces of str between the delimiters, the
\* delimiters left out; a string without the delimiter is one piece.
RECURSIVE str_split_loop(_, _, _)
str_split_loop(str, delimiter, splits) ==
  LET dpos == find_first_of(str, delimiter)
  IN IF dpos = npos THEN Append(splits, str)
     ELSE str_split_loop(remove_prefix(str, dpos + 1), delimiter,
                         Append(splits, substr(str, 0, dpos)))

str_split(str, delimiter) == str_split_loop(str, delimiter, << >>)

\* boost::adaptors::reverse
reverse(seq) == [i \in 1..Len(seq) |-> seq[Len(seq) + 1 - i]]

\* str_join(pieces, sep)
RECURSIVE str_join(_, _)
str_join(pieces, sep) ==
  IF pieces = << >> THEN << >>
  ELSE IF Len(pieces) = 1 THEN pieces[1]
  ELSE pieces[1] \o sep \o str_join(Tail(pieces), sep)

\* An inversion that joins the pieces in the order they were split in.
invert_query_NoReverse(q, delimiter) ==
  str_join(str_split(q, delimiter[1]), << >>)

\* python_extension_main.cc:147-149
invert_query(q, delimiter) ==
  str_join(reverse(str_split(q, delimiter[1])), << >>)

QueryChars == {"a", "b", ","}
Queries == UNION {[1..n -> QueryChars] : n \in 0..MaxQueryLen}
Delimiters == UNION {[1..n -> QueryChars] : n \in 0..MaxDelim}

InitInvert ==
  /\ DriverIdle
  /\ PathIdle
  /\ CrIdle
  /\ ThreadsIdle
  /\ HlIdle
  /\ ipc = "start"
  /\ query_data \in Queries
  /\ query_inverting_delimiter \in Delimiters
  /\ inv_query = << >>

frozenForInvert == << requestVars, pathVars, crVars, thrVars, hlVars,
                      query_data, query_inverting_delimiter >>

\* python_extension_main.cc:140-150: no delimiter is set, and the query is
\* left as it is.
I_Keep ==
  /\ ipc = "start"
  /\ query_inverting_delimiter = << >>
  /\ inv_query' = query_data
  /\ ipc' = "done"
  /\ UNCHANGED frozenForInvert

\* python_extension_main.cc:143-146
I_DelimiterError ==
  /\ ipc = "start"
  /\ query_inverting_delimiter # << >>
  /\ DelimiterTooLong(Len(query_inverting_delimiter))
  /\ ipc' = "runtime_error"
  /\ UNCHANGED << frozenForInvert, inv_query >>

\* python_extension_main.cc:140-150: the query is inverted.
I_Invert ==
  /\ ipc = "start"
  /\ query_inverting_delimiter # << >>
  /\ ~DelimiterTooLong(Len(query_inverting_delimiter))
  /\ inv_query' = invert_query(query_data, query_inverting_delimiter)
  /\ ipc' = "done"
  /\ UNCHANGED frozenForInvert

NextInvert == I_Keep \/ I_DelimiterError \/ I_Invert

SpecInvert == InitInvert /\ [][NextInvert]_vars

\* ------------------------------------------------------ the highlight pass

HighlightModes == {"", "none", "basic", "detailed"}

\* The offset of item_substr_fn(mode, item) in item: where the view starts.
item_substr_offset(mode, item) ==
  IF mode = "filename-only"
  THEN LET pos == find_last_of(item, path_separator)
       IN IF pos # npos THEN pos + 1 ELSE 0
  ELSE 0

\* The elements of a finite set of numbers, ascending: the order in which a
\* std::set is iterated.
RECURSIVE Ascending(_)
Ascending(S) ==
  IF S = {} THEN << >>
  ELSE LET m == CHOOSE x \in S : \A y \in S : x <= y
       IN <<m>> \o Ascending(S \ {m})

\* Matcher::match(item_str, m, &match_positions): the sets of positions it may
\* record for a match, one position of item_str (from 0) for each character
\* of the query, in order.
MatchPositions(q, item_str) ==
  {Range(f) : f \in {g \in [1..Len(q) -> 0..(Len(item_str) - 1)] :
                       /\ \A i \in 1..Len(q) : item_str[g[i] + 1] = q[i]
                       /\ \A i \in 1..(Len(q) - 1) : g[i] < g[i + 1]}}

\* A pass that leaves the positions as the matcher recorded them.
rebase_NoBase(base, positions) == positions

\* python_extension_main.cc:300-305: new_match_positions, each position moved
\* by base and stored as a CharCount.
rebase(base, positions) == {(base + pos) % CharCountRange : pos \in positions}

HlChars == {"a", "b", path_separator, Tab}
HlItems == UNION {[1..n -> HlChars] : n \in 0..MaxHlLen}
HlQueries == UNION {[1..n -> {"a", "b"}] : n \in 0..MaxHlQuery}

InitHl ==
  /\ DriverIdle
  /\ PathIdle
  /\ ThreadsIdle
  /\ InvertIdle
  /\ mmode \in MatchModes
  /\ cur_file = << >>
  /\ match_crfile = TRUE
  /\ query \in HlQueries
  /\ cr_seen = 0
  /\ cr_matches = << >>
  /\ hpc = "first"
  /\ hl_item \in HlItems
  /\ highlight_mode \in HighlightModes
  /\ match_positions = << >>

frozenForHl == << requestVars, pathVars, crVars, thrVars, invVars, hl_item,
                  highlight_mode >>

\* python_extension_main.cc:234-241, 271-280: the candidate matches in the
\* first pass and is among all_matches.
H_FirstAccept ==
  /\ hpc = "first"
  /\ Matcher_match(item_substr_fn(mmode, hl_item))
  /\ hpc' = "highlight"
  /\ UNCHANGED << frozenForHl, match_positions >>

\* python_extension_main.cc:234-240, 251-253: the candidate does not match.
H_FirstReject ==
  /\ hpc = "first"
  /\ ~Matcher_match(item_substr_fn(mmode, hl_item))
  /\ hpc' = "rejected"
  /\ UNCHANGED << frozenForHl, match_positions >>

\* python_extension_main.cc:283-286: no highlighting is asked for.
H_NoHighlight ==
  /\ hpc = "highlight"
  /\ highlight_mode \in {"", "none"}
  /\ hpc' = "done"
  /\ UNCHANGED << frozenForHl, match_positions >>

\* python_extension_main.cc:288-297: the match is matched again for its
\* positions; Error is thrown when it does not match.
H_Rematch ==
  /\ hpc = "highlight"
  /\ highlight_mode \notin {"", "none"}
  /\ LET item_str == item_substr_fn(mmode, hl_item)
     IN IF Matcher_match(item_str)
        THEN /\ \E positions \in MatchPositions(query, item_str) :
                  match_positions' = Ascending(positions)
             /\ hpc' = "rebase"
        ELSE /\ match_positions' = match_positions
             /\ hpc' = "runtime_error"
  /\ UNCHANGED frozenForHl

\* python_extension_main.cc:298-306: the positions are moved by the offset of
\* the view in the candidate, when the match mode takes a view.
H_Rebase ==
  /\ hpc = "rebase"
  /\ match_positions' =
       IF mmode # "full-line"
       THEN Ascending(rebase(item_substr_offset(mmode, hl_item),
                             Range(match_positions)))
       ELSE match_positions
  /\ hpc' = "done"
  /\ UNCHANGED frozenForHl

NextHl ==
  H_FirstAccept \/ H_FirstReject \/ H_NoHighlight \/ H_Rematch \/ H_Rebase

SpecHl == InitHl /\ [][NextHl]_vars

\* ------------------------------------------------------------- the claims

Pulled == 1..Len(history)

\* The candidates of the stream that the matcher accepts.
Accepted == {h \in Pulled : Verdict(KindOf(h)) = "accept"}

ResultKinds == [i \in 1..Len(result) |-> KindOf(result[i])]

\* C1: when ctrlp_match returns a match list, the list holds min(total, K)
\* matches of the stream (all of them when K = 0), each once, and no match
\* left out scores higher than a match returned.
C1_TopK ==
  dpc = "returned" =>
    /\ Len(result) =
         IF limit = 0 THEN Cardinality(Accepted)
         ELSE Min(Cardinality(Accepted), limit)
    /\ Cardinality(Range(result)) = Len(result)
    /\ Range(result) \subseteq Accepted
    /\ \A h \in Range(result) : \A g \in Accepted \ Range(result) :
         Score(KindOf(h)) >= Score(KindOf(g))

\* C1's case: a limit cuts matches that two workers could share.
C1_Witness ==
  /\ dpc = "returned"
  /\ nr_threads = 2
  /\ limit > 0
  /\ Cardinality(Accepted) > limit
  /\ \E h \in Range(result) : \E g \in Accepted \ Range(result) :
       Score(KindOf(h)) > Score(KindOf(g))

\* The matches S as a sequence of their strings, best first: the reference
\* order, by score and then by bytes.
RECURSIVE RefSorted(_)
RefSorted(S) ==
  IF S = {} THEN << >>
  ELSE LET a == CHOOSE x \in S : \A b \in S : ~MatchLess(b, x)
       IN <<KindOf(a)>> \o RefSorted(S \ {a})

\* What the stream and the limit alone determine as the strings returned.
Expected ==
  LET s == RefSorted(Accepted)
  IN IF limit # 0 /\ limit < Len(s) THEN SubSeq(s, 1, limit) ELSE s

\* C2: the strings returned, in order, are a function of the stream and the
\* limit: no interleaving and no thread count changes them.
C2_Deterministic == dpc = "returned" => ResultKinds = Expected

\* C2's case: two workers, a limit that cuts, and a tie on the score that the
\* bytes break.
C2_Witness ==
  /\ dpc = "returned"
  /\ nr_threads = 2
  /\ limit = 2
  /\ Cardinality(Accepted) > limit
  /\ ResultKinds = <<"lo1", "lo2">>

Finished == dpc \in {"returned", "host_error", "runtime_error", "terminated"}

\* C3: no handle is released twice, a handle in the returned list is not
\* released, and when the request ends every other handle pulled has been
\* released once.
C3_ReleasedExactlyOnce ==
  /\ \A h \in Pulled : released[h] <= 1
  /\ \A h \in Range(result) : released[h] = 0
  /\ Finished => \A h \in Pulled \ Range(result) : released[h] = 1

\* C4: a worker drops a handle only while it holds items_mu.
C4_ReleaseUnderMutex == unlocked_rel = {}

\* The producer raised a host-side error: next() raised, or yielded an object
\* that is not a string.
HostErrorPulled == iter_state = "raised" \/ "obj" \in Range(history)

\* C5: once pulling a candidate has raised a host-side error, the flag is
\* set and no match list is returned.
C5_HostErrorNoValue ==
  HostErrorPulled => have_python_ex /\ dpc # "returned"

\* C6: when the driver raises a worker's error, every worker has ended.
C6_JoinAllBeforeRaise ==
  dpc = "raising" => \A w \in 1..nr_threads : wpc[w] = "done"

\* C7: with a delimiter longer than one character the request ends in a
\* runtime error, and it never touches the producer or starts a worker.
C7_DelimiterError ==
  delim_size > 1 =>
    /\ dpc \in {"start", "runtime_error"}
    /\ history = << >> /\ iter_state = "open"
    /\ \A w \in Workers : wpc[w] = "unborn"
    /\ result = << >>

\* C7's case: the request has failed on the delimiter.
C7_Witness == delim_size > 1 /\ dpc = "runtime_error"

\* C8: with match_crfile false, no candidate equal to crfile is among the
\* matches, whatever the match mode.
C8_CrfileNotReturned ==
  ~match_crfile => \A i \in 1..Len(cr_matches) : cr_matches[i] # cur_file

\* The number of equal leading components of x and y.
CommonLeading(x, y) ==
  CHOOSE n \in 0..Min(Len(x), Len(y)) :
    /\ \A i \in 1..n : x[i] = y[i]
    /\ n = Min(Len(x), Len(y)) \/ x[n + 1] # y[n + 1]

\* C9: the distance is len(x) + len(y) - 2 * (the equal leading components);
\* the subtraction does not pass below zero, since the common prefix is at
\* most the shorter length; and the distance from y to x is the same.
C9_PathDistance ==
  ppc = "done" =>
    /\ distance =
         Len(parts_x) + Len(parts_y) - 2 * CommonLeading(parts_x, parts_y)
    /\ common_prefix(parts_x, parts_y) <= Min(Len(parts_x), Len(parts_y))
    /\ distance >= 0
    /\ distance <= Len(parts_x) + Len(parts_y)
    /\ distance = path_distance_between(parts_y, parts_x)

\* C9's case: two paths that share a first component and then part.
C9_Witness ==
  /\ ppc = "done"
  /\ CommonLeading(parts_x, parts_y) = 1
  /\ Len(parts_x) = 2 /\ Len(parts_y) = 3
  /\ distance = 3

RECURSIVE Concat(_)
Concat(parts) ==
  IF parts = << >> THEN << >> ELSE Head(parts) \o Concat(Tail(parts))

\* What C10 says of the components `parts` of the path p.
ComponentsOf(p, parts) ==
  /\ Concat(parts) = p
  /\ \A i \in 1..Len(parts) :
       /\ parts[i] # << >>
       /\ \A j \in 1..(Len(parts[i]) - 1) : parts[i][j] # path_separator
       /\ i < Len(parts) => parts[i][Len(parts[i])] = path_separator
  /\ p = << >> => parts = << >>

\* C10: the components of a path concatenate to the path; none is empty; a
\* separator is only ever the last character of a component, and it ends
\* every component but possibly the last; the empty path has no components.
C10_Components ==
  /\ ppc \in {"split_y", "distance", "done"} => ComponentsOf(path_x, parts_x)
  /\ ppc \in {"distance", "done"} => ComponentsOf(path_y, parts_y)

\* C10's case: a path of three components, one of them the separator alone,
\* the last without a separator.
C10_Witness ==
  /\ ppc = "split_y"
  /\ Len(parts_x) = 3
  /\ parts_x[2] = <<path_separator>>
  /\ parts_x[3] = <<"b">>

\* C11: the thread count is min(cores, max_threads) for a positive
\* max_threads and the core count otherwise, a report of 0 cores counting as
\* 1; it is at least 1, at most a positive max_threads, and a negative
\* max_threads gives what 0 gives.
C11_ThreadCount ==
  tpc = "done" =>
    LET cores == IF hw = 0 THEN 1 ELSE hw
    IN /\ t_nr_threads =
            IF t_max_threads_int > 0 THEN Min(cores, t_max_threads_int)
            ELSE cores
       /\ t_nr_threads >= 1
       /\ t_max_threads_int > 0 => t_nr_threads <= t_max_threads_int
       /\ t_max_threads_int < 0 => t_nr_threads = cores

\* C11's case: a machine that reports no cores, asked for at most two threads.
C11_Witness ==
  /\ tpc = "done"
  /\ hw = 0
  /\ t_max_threads_int = 2
  /\ t_nr_threads = 1

\* The offsets, from 1, of the delimiter c in q, with 0 and Len(q) + 1 as the
\* two ends.
Cuts(q, c) == {0, Len(q) + 1} \cup {i \in 1..Len(q) : q[i] = c}

\* The k-th cut of q, counted from the end of q (k = 1 is Len(q) + 1).
CutFromEnd(q, c, k) ==
  CHOOSE i \in Cuts(q, c) : Cardinality({j \in Cuts(q, c) : j >= i}) = k

\* The segments of q between the delimiters, the last segment first, one
\* after the other.
RECURSIVE SegmentsReversed(_, _, _)
SegmentsReversed(q, c, k) ==
  IF k >= Cardinality(Cuts(q, c)) THEN << >>
  ELSE SubSeq(q, CutFromEnd(q, c, k + 1) + 1, CutFromEnd(q, c, k) - 1)
         \o SegmentsReversed(q, c, k + 1)

\* C12: with a delimiter of one character the query becomes its segments
\* between the delimiters, joined last segment first; a query without the
\* delimiter is left as it is.
C12_QueryInversion ==
  (ipc = "done" /\ Len(query_inverting_delimiter) = 1) =>
    LET c == query_inverting_delimiter[1]
    IN /\ inv_query = SegmentsReversed(query_data, c, 1)
       /\ c \notin Range(query_data) => inv_query = query_data

\* C12's case: the query "ab,b" inverted on "," is "bab".
C12_Witness ==
  /\ ipc = "done"
  /\ query_inverting_delimiter = <<",">>
  /\ query_data = <<"a", "b", ",", "b">>
  /\ inv_query = <<"b", "a", "b">>

\* C13 as stated: with a limit K > 0 no worker's heap ever holds more than K
\* matches, the state between the push and the eviction included.
C13_HeapAtMostK ==
  limit > 0 => \A w \in Workers : Cardinality(thread_matches[w]) <= limit

\* C13 as amended: with a limit K > 0 a worker's heap never holds more than
\* K + 1 matches, and it holds more than K only between the push of a match
\* (lines 241-243) and the eviction of the worst one (lines 245-248).
C13_HeapBound ==
  limit > 0 =>
    \A w \in Workers :
      /\ Cardinality(thread_matches[w]) <= limit + 1
      /\ wpc[w] # "evict" => Cardinality(thread_matches[w]) <= limit

\* C13's case: a worker has pushed the match that takes its heap past the
\* limit and has not evicted yet.
C13_Witness ==
  /\ limit > 0
  /\ \E w \in Workers :
       wpc[w] = "evict" /\ Cardinality(thread_matches[w]) = limit + 1

\* The matching candidates worker w has seen: the handles it passed to the
\* matcher and the matcher accepted.
SeenMatches(w) ==
  {h \in Pulled : tested[w][h] > 0 /\ Verdict(KindOf(h)) = "accept"}

\* The driver has not yet moved or destroyed the workers' heaps.
HeapsInPlace == dpc \in {"spawn", "join", "joined", "raising", "terminated"}

\* C14: with a limit K > 0, whenever a worker is not between a push and its
\* eviction, its heap holds min(K, n) of the n matches it has seen, and no
\* match it has seen and evicted scores higher than a match in the heap.
C14_HeapHoldsBest ==
  (limit > 0 /\ HeapsInPlace) =>
    \A w \in Workers :
      wpc[w] # "evict" =>
        /\ thread_matches[w] \subseteq SeenMatches(w)
        /\ Cardinality(thread_matches[w]) =
             Min(limit, Cardinality(SeenMatches(w)))
        /\ \A h \in thread_matches[w] :
             \A g \in SeenMatches(w) \ thread_matches[w] :
               Score(KindOf(g)) <= Score(KindOf(h))

\* C14's case: a worker has seen more matches than the limit and has evicted
\* one that scores lower than a match it keeps.
C14_Witness ==
  /\ limit > 0
  /\ HeapsInPlace
  /\ \E w \in Workers :
       /\ wpc[w] \in {"match", "top"}
       /\ Cardinality(SeenMatches(w)) > limit
       /\ \E h \in thread_matches[w] :
            \E g \in SeenMatches(w) \ thread_matches[w] :
              Score(KindOf(g)) < Score(KindOf(h))

\* The bytes of the strings of a batch.
RECURSIVE BatchBytes(_)
BatchBytes(batch) ==
  IF batch = << >> THEN 0
  ELSE ItemSize(KindOf(Head(batch))) + BatchBytes(Tail(batch))

\* C15: a worker goes on pulling only while its batch is below
\* kBatchSizeBytes; a batch that leaves the locked section without the stream
\* having ended or a host error has at least kBatchSizeBytes bytes, and fewer
\* without the candidate pulled last.
C15_BatchThreshold ==
  \A w \in Workers :
    /\ wpc[w] \in {"pull", "unlock"} =>
         batch_size_bytes[w] = BatchBytes(items[w])
    /\ wpc[w] = "pull" => batch_size_bytes[w] < kBatchSizeBytes
    /\ (wpc[w] = "unlock" /\ ~end_of_python_iter) =>
         /\ items[w] # << >>
         /\ BatchBytes(items[w]) >= kBatchSizeBytes
         /\ BatchBytes(SubSeq(items[w], 1, Len(items[w]) - 1)) < kBatchSizeBytes

\* C15's case: a batch of two candidates, the second taking it past the
\* threshold.
C15_Witness ==
  \E w \in Workers :
    /\ wpc[w] = "unlock"
    /\ ~end_of_python_iter
    /\ Len(items[w]) = 2
    /\ batch_size_bytes[w] > kBatchSizeBytes

\* The positions of a worker inside a block that holds items_mu.
LockedPcs == {"pull", "ret_locked", "unlock", "defer_unlock"}

\* This step changes the batch, the waiting handles, the heap or the batch
\* size of worker w.
LocalsChange(w) ==
  \/ items'[w] # items[w]
  \/ unmatched_objs'[w] # unmatched_objs[w]
  \/ thread_matches'[w] # thread_matches[w]
  \/ batch_size_bytes'[w] # batch_size_bytes[w]

\* This step pulls from the producer or writes one of the two flags.
ProducerChange ==
  \/ history' # history
  \/ iter_state' # iter_state
  \/ end_of_python_iter' # end_of_python_iter
  \/ have_python_ex' # have_python_ex

\* C16: at most one worker is inside a locked block, and it is the holder of
\* items_mu; a step that pulls from the producer or writes a flag is taken by
\* the holder of items_mu, and the step that reads the flags (line 208) in a
\* block that holds it; the batch, heap and buffers of a worker change only in
\* steps of that worker, or of the driver once the worker has ended.
C16_MutexGuardsProducer ==
  /\ [](/\ Cardinality({w \in Workers : wpc[w] \in LockedPcs}) <= 1
        /\ \A w \in Workers : wpc[w] \in LockedPcs => items_mu = w)
  /\ [][ProducerChange =>
         \E w \in Workers :
           /\ items_mu = w /\ items_mu' = w
           /\ wpc[w] = "pull"
           /\ \A v \in Workers \ {w} : wpc'[v] = wpc[v]]_vars
  /\ [][\A w \in Workers :
         (wpc[w] = "top" /\ wpc'[w] # "top") => items_mu' = w]_vars
  /\ [][\A w \in Workers :
         LocalsChange(w) =>
           \/ /\ wpc[w] \notin {"unborn", "done"}
              /\ dpc' = dpc
              /\ \A v \in Workers \ {w} : wpc'[v] = wpc[v] /\ ~LocalsChange(v)
           \/ wpc[w] = "done" /\ dpc' # dpc]_vars

\* C16's case: one worker pulls with items_mu held while another waits for
\* items_mu with a batch matched.
C16_Witness ==
  \E w \in Workers : \E v \in Workers \ {w} :
    /\ wpc[w] = "pull" /\ items_mu = w /\ items[w] # << >>
    /\ wpc[v] = "top" /\ unmatched_objs[v] # {}

\* C17: from a state with end_of_python_iter or have_python_ex set, no step
\* pulls from the producer, no batch grows, no worker is or comes to be in the
\* pull loop, and a worker that takes items_mu at the top of its loop leaves
\* by the return of line 209.
C17_NoPullAfterFlag ==
  [][(end_of_python_iter \/ have_python_ex) =>
       /\ history' = history
       /\ iter_state' = iter_state
       /\ \A w \in Workers :
            /\ Len(items'[w]) <= Len(items[w])
            /\ wpc[w] # "pull" /\ wpc'[w] # "pull"
            /\ (wpc[w] = "top" /\ wpc'[w] # "top") => wpc'[w] = "ret_locked"
            /\ wpc[w] = "ret_locked" => wpc'[w] \in {"ret_locked", "defer"}]_vars

\* C17's case: after a host error a worker that has matched a batch takes
\* items_mu again and returns, with the stream not exhausted.
C17_Witness ==
  /\ have_python_ex
  /\ ~end_of_python_iter
  /\ Len(history) < MaxItems
  /\ \E w \in Workers :
       /\ wpc[w] = "ret_locked"
       /\ \E h \in Handles : tested[w][h] > 0

\* The candidate's region that takes part in matching, as offsets from 0:
\* the basename is the end of the candidate, every other view its start.
RegionLen == Len(item_substr_fn(mmode, hl_item))
RegionStart == IF mmode = "filename-only" THEN Len(hl_item) - RegionLen ELSE 0

\* C18: after the highlight pass the positions of a match lie in the
\* candidate's region, ascend strictly, are as many as the query's
\* characters, and the candidate's characters there spell the query.
C18_HighlightPositions ==
  (hpc = "done" /\ highlight_mode \notin {"", "none"}) =>
    /\ Len(match_positions) = Len(query)
    /\ \A i \in 1..Len(match_positions) :
         /\ RegionStart <= match_positions[i]
         /\ match_positions[i] < RegionStart + RegionLen
         /\ hl_item[match_positions[i] + 1] = query[i]
    /\ \A i \in 1..(Len(match_positions) - 1) :
         match_positions[i] < match_positions[i + 1]

\* C18's case: "ab" matched in the basename of "/ab".
C18_Witness ==
  /\ hpc = "done"
  /\ highlight_mode = "basic"
  /\ mmode = "filename-only"
  /\ hl_item = <<path_separator, "a", "b">>
  /\ query = <<"a", "b">>
  /\ match_positions = <<1, 2>>

\* ctrlp_match has returned to the host, every worker having ended.
RequestOver ==
  /\ dpc \in {"returned", "host_error", "runtime_error"}
  /\ \A w \in 1..nr_threads : wpc[w] = "done"

\* C19: under fair scheduling, a request in which the matcher raises no error
\* comes to its return with every worker ended (the producer of the model
\* yields at most MaxItems candidates).
C19_Terminates == <>(RequestOver \/ \E w \in Workers : has_exception[w])

\* C19's case: a request of two workers has returned matches after a worker
\* left by the return inside the locked block.
C19_Witness ==
  /\ dpc = "returned"
  /\ nr_threads = 2
  /\ \A w \in Workers : wpc[w] = "done" /\ ~has_exception[w]
  /\ result # << >>

\* How many times the matcher has tested handle h in the first pass, over
\* all the workers.
RECURSIVE TestsOf(_, _)
TestsOf(h, ws) ==
  IF ws = {} THEN 0
  ELSE LET w == CHOOSE x \in ws : TRUE
       IN tested[w][h] + TestsOf(h, ws \ {w})

\* The workers whose batch holds handle h, and the places it holds there.
Holders(h) == {w \in Workers : h \in Range(items[w])}
PlacesIn(w, h) == {i \in 1..Len(items[w]) : items[w][i] = h}

\* C20: a candidate is in the batch of at most one worker, once, and is not
\* yet tested while it is there; no candidate is tested twice; and when the
\* request returns its matches every candidate pulled has been tested once.
C20_EachTestedOnce ==
  /\ \A h \in Pulled :
       /\ Cardinality(Holders(h)) <= 1
       /\ \A w \in Holders(h) : Cardinality(PlacesIn(w, h)) = 1
       /\ Holders(h) # {} => TestsOf(h, Workers) = 0
       /\ TestsOf(h, Workers) <= 1
  /\ dpc = "returned" => \A h \in Pulled : TestsOf(h, Workers) = 1

\* C20's case: a request returns after each of two workers has tested
\* candidates of the stream.
C20_Witness ==
  /\ dpc = "returned"
  /\ nr_threads = 2
  /\ iter_state = "ended"
  /\ \A w \in Workers : \E h \in Pulled : tested[w][h] = 1

====
